---- MODULE Spec2Model ----
(***************************************************************************)
(* Model of the energy/weather data pipeline: the retrying HTTP fetcher    *)
(* (src/src/data_fetcher.py), the normalizers and the joiner               *)
(* (src/src/data_processor.py), the quality checks (src/src/analysis.py)   *)
(* and the orchestrator (src/src/pipeline.py).                             *)
(*                                                                         *)
(* The specifications share the variables:                                 *)
(*   SpecRetry     the retry_request decorator around an arbitrary func    *)
(*   Spec          one run of run_pipeline (fetch, process, report)        *)
(*   SpecJoin      the normalizers and the merge on bounded payloads       *)
(*   SpecOutliers  check_outliers on bounded combined frames               *)
(*   SpecConvert   tenths_c_to_f on pairs of bounded readings              *)
(*   SpecWindow    the fetch window selected from run_pipeline's arguments *)
(***************************************************************************)
EXTENDS Integers, Sequences, FiniteSets, TLC

VARIABLES
    \* ---- retry_request wrapper ----
    max_retries,    \* decorator argument
    delay,          \* decorator argument (seconds)
    backoff,        \* decorator argument
    retries,        \* local variable of wrapper
    wpc,            \* position of wrapper: idle, loop, returned, raised
    wlog,           \* calls of func and sleeps made by wrapper, in order
    wresult,        \* value returned by wrapper (a JSON payload or None)
    \* ---- one run of run_pipeline ----
    pc,             \* position of the run
    env,            \* configuration file and credentials found by the run
    cities,         \* config['cities'], a sequence of city names
    range,          \* date_str_for_filename of the run
    ci,             \* index of the city the current loop is at
    attempted,      \* the <<source, city index>> whose fetch has been made
    lastFetch,      \* the latest fetch made: its outcome and what was saved
    writes,         \* raw file names save_data wrote completely in this run
    raw0,           \* raw storage as the run found it
    raw,            \* raw storage: file name -> file
    procLog,        \* outcome of process_all_data's loop body, per city index
    processed,      \* processed storage: file name -> frame
    report,         \* the quality report file
    stages,         \* stages of run_pipeline entered so far, in order
    \* ---- normalizers and join on one pair of raw files ----
    jin,            \* the pair of raw files
    jout,           \* what the loop body of process_all_data made of them
    \* ---- quality checks on one combined frame ----
    combined_df,    \* the rows of the frame check_outliers is given
    outliers,       \* the dictionary check_outliers returned
    \* ---- the unit conversion on two readings ----
    temp_in_tenths_c,   \* two readings in tenths of a degree Celsius
    fahrenheit,         \* what tenths_c_to_f returned for each
    \* ---- the fetch window of a run ----
    args,           \* the arguments run_pipeline is called with
    command,        \* the options run_pipeline passes to the fetcher
    window          \* start and end date fetch_data_for_range is called with

wvars == <<max_retries, delay, backoff, retries, wpc, wlog, wresult>>
pvars == <<pc, env, cities, range, ci, attempted, lastFetch, writes, raw0, raw,
           procLog, processed, report, stages>>
jvars == <<jin, jout>>
avars == <<combined_df, outliers>>
cvars == <<temp_in_tenths_c, fahrenheit>>
mvars == <<args, command, window>>

vars == <<wvars, pvars, jvars, avars, cvars, mvars>>

(***************************************************************************)
(* Bounds                                                                  *)
(***************************************************************************)
MaxRetriesArg == 4      \* largest max_retries tried in SpecRetry
MaxNoaaRows == 2        \* longest 'results' list tried in SpecJoin
MaxEiaRows == 2         \* longest response.data list tried in SpecJoin
MaxRecords == 2         \* longest combined frame tried in SpecOutliers
MaxTenths == 100        \* largest reading (tenths of a degree) in SpecConvert

(***************************************************************************)
(* JSON payloads.  kind says what json.load / response.json() produced:    *)
(*   "nondict"  a JSON value that is not an object                         *)
(*   "nokey"    an object without the expected top-level key               *)
(*   "list"     the expected key holds the list rows (possibly empty)      *)
(*   "scalar"   the expected key holds a truthy value that is not a list   *)
(*   "None"     Python's None (no payload at all)                          *)
(***************************************************************************)
Payload(k, r) == [kind |-> k, rows |-> r]
NonePayload == Payload("None", << >>)

(***************************************************************************)
(* Values.  A float is an exact fraction <<num, den>> in lowest terms with *)
(* den > 0; NaN (pandas' missing value) is the empty tuple.                *)
(***************************************************************************)
NaN == << >>

Abs(x) == IF x < 0 THEN -x ELSE x

RECURSIVE Gcd(_, _)
Gcd(a, b) == IF b = 0 THEN a ELSE Gcd(b, a % b)

Frac(n, d) == LET g == Gcd(Abs(n), d) IN <<n \div g, d \div g>>


\* A timestamp string is <<day, hour>>; day 1 is 2023-01-01.
\* pd.to_datetime(col).dt.date.astype(str) keeps the calendar date only.
ToDate(stamp) == stamp[1]

\* dt.day_name(): 2023-01-01 is a Sunday
DayNames == <<"Sunday", "Monday", "Tuesday", "Wednesday", "Thursday",
              "Friday", "Saturday">>
DayName(day) == DayNames[((day - 1) % 7) + 1]

\* the elements of a set of integers in ascending order
RECURSIVE SortedSeq(_)
SortedSeq(S) ==
    IF S = {} THEN << >>
    ELSE LET m == CHOOSE x \in S : \A y \in S : x <= y
         IN <<m>> \o SortedSeq(S \ {m})

\* the elements of a set of timestamps in ascending (lexicographic) order
StampLe(a, b) == a[1] < b[1] \/ (a[1] = b[1] /\ a[2] <= b[2])

RECURSIVE SortedStamps(_)
SortedStamps(S) ==
    IF S = {} THEN << >>
    ELSE LET m == CHOOSE x \in S : \A y \in S : StampLe(x, y)
         IN <<m>> \o SortedStamps(S \ {m})

RECURSIVE SumValues(_)
SumValues(s) == IF s = << >> THEN 0 ELSE Head(s).value + SumValues(Tail(s))

Range(s) == {s[i] : i \in 1..Len(s)}

(***************************************************************************)
(* DataFrames: kind "None" is Python's None (the normalizers' hard         *)
(* failure), kind "df" is a frame with the columns cols and the rows rows. *)
(* A weather row is [date, tmax_f, tmin_f], a demand row is                *)
(* [date, energy_mwh]; a cell of a column the frame lacks is NaN.          *)
(***************************************************************************)
NoneDF == [kind |-> "None", cols |-> {}, rows |-> << >>]
DF(c, r) == [kind |-> "df", cols |-> c, rows |-> r]
EmptyDF == DF({}, << >>)                  \* pd.DataFrame()
RaisedDF == [kind |-> "raised", cols |-> {}, rows |-> << >>]
NotRunDF == [kind |-> "notrun", cols |-> {}, rows |-> << >>]

\* DataFrame.empty: some axis has length 0
IsEmpty(df) == df.rows = << >> \/ df.cols = {}

\* A raw file: parsable JSON text holding payload, or text json.load rejects
JsonFile(p) == [state |-> "json", payload |-> p]
CorruptFile == [state |-> "corrupt", payload |-> NonePayload]

\* Python truthiness of data.get(<key>): the key is there and its value is
\* a non-empty list or another truthy value
Truthy(p) == (p.kind = "list" /\ p.rows # << >>) \/ p.kind = "scalar"

(***************************************************************************)
(* tenths_c_to_f (data_processor.py 30-35) on a fraction of tenths         *)
(***************************************************************************)
tenths_c_to_f_MutNoOffset(t) ==
    IF t = NaN THEN NaN ELSE Frac(9 * t[1], 50 * t[2])
tenths_c_to_f(t) ==
    IF t = NaN THEN NaN ELSE Frac(9 * t[1] + 1600 * t[2], 50 * t[2])

(***************************************************************************)
(* process_noaa_data (data_processor.py 49-75)                             *)
(***************************************************************************)
\* pivot_table cell (aggfunc mean): the mean of the values of datatype dt on
\* calendar date d, NaN when there is none
PivotCell(rows, d, dt) ==
    LET sel == SelectSeq(rows, LAMBDA r : ToDate(r.date) = d /\ r.datatype = dt)
    IN IF sel = << >> THEN NaN ELSE Frac(SumValues(sel), Len(sel))

HasDatatype(rows, dt) == \E i \in 1..Len(rows) : rows[i].datatype = dt

process_noaa_data(file) ==
    IF file.state = "corrupt" THEN NoneDF                         \* 54-56
    ELSE IF file.payload.kind = "nondict" THEN RaisedDF           \* 58 AttributeError
    ELSE IF ~Truthy(file.payload) THEN EmptyDF                    \* 58-60
    ELSE IF file.payload.kind = "scalar" THEN RaisedDF            \* 62 ValueError
    ELSE
      LET rows == file.payload.rows
          days == SortedSeq({ToDate(rows[i].date) : i \in 1..Len(rows)})
          cols == {"date"}
                    \cup (IF HasDatatype(rows, "TMAX") THEN {"tmax_f"} ELSE {})
                    \cup (IF HasDatatype(rows, "TMIN") THEN {"tmin_f"} ELSE {})
      IN DF(cols,
            [i \in 1..Len(days) |->
               [date   |-> days[i],
                tmax_f |-> tenths_c_to_f(PivotCell(rows, days[i], "TMAX")),
                tmin_f |-> tenths_c_to_f(PivotCell(rows, days[i], "TMIN"))]])

(***************************************************************************)
(* process_eia_data (data_processor.py 77-104)                             *)
(***************************************************************************)
\* a raw demand value: a number, a string that is no number, or JSON null
NumVal(n) == [text |-> "num", n |-> n]
JunkVal == [text |-> "junk", n |-> 0]
NullVal == [text |-> "null", n |-> 0]

\* pd.to_numeric(col, errors='coerce')
to_numeric(v) == IF v.text = "num" THEN Frac(v.n, 1) ELSE NaN

HasDupPeriods(rows) ==
    \E i, j \in 1..Len(rows) : i < j /\ rows[i].period = rows[j].period

\* groupby('period').first().reset_index(): one row per period, periods in
\* ascending order, each column the first non-null entry of the group
GroupFirst(rows) ==
    LET ps == SortedStamps({rows[i].period : i \in 1..Len(rows)})
        grp(p) == SelectSeq(rows, LAMBDA r : r.period = p)
        nonnull(p) == SelectSeq(grp(p), LAMBDA r : r.value.text # "null")
    IN [i \in 1..Len(ps) |->
          [period   |-> ps[i],
           type     |-> grp(ps[i])[1].type,
           timezone |-> grp(ps[i])[1].timezone,
           value    |-> IF nonnull(ps[i]) = << >> THEN NullVal
                        ELSE nonnull(ps[i])[1].value]]

IsDemandEastern(r) == r.type = "D" /\ r.timezone = "Eastern"
IsDemand(r) == r.type = "D"

\* lines 92-97: the rows the demand set is built from
DemandRowsMutNoDedup(rows) ==
    LET east == SelectSeq(rows, IsDemandEastern)
        any  == SelectSeq(rows, IsDemand)
    IN IF east # << >> THEN east ELSE any
DemandRows(rows) ==
    LET east == SelectSeq(rows, IsDemandEastern)
        any  == SelectSeq(rows, IsDemand)
    IN IF east # << >> THEN east
       ELSE IF any # << >> /\ HasDupPeriods(any) THEN GroupFirst(any)
       ELSE any

process_eia_data(file) ==
    IF file.state = "corrupt" THEN NoneDF                         \* 82-84
    ELSE IF file.payload.kind = "nondict" THEN RaisedDF           \* 86 AttributeError
    ELSE IF ~Truthy(file.payload) THEN EmptyDF                    \* 86-88
    ELSE IF file.payload.kind = "scalar" THEN RaisedDF            \* 90 ValueError
    ELSE
      LET sel == DemandRows(file.payload.rows)
      IN DF({"date", "energy_mwh"},
            [i \in 1..Len(sel) |->
               [date       |-> ToDate(sel[i].period),
                energy_mwh |-> to_numeric(sel[i].value)]])

(***************************************************************************)
(* pd.merge(noaa_df, eia_df, on='date', how='inner') followed by the city  *)
(* and day_of_week columns (data_processor.py 156-163)                     *)
(***************************************************************************)
RECURSIVE Flatten(_)
Flatten(ss) == IF ss = << >> THEN << >> ELSE Head(ss) \o Flatten(Tail(ss))

MergeRow(w, e, city) ==
    [date |-> w.date, tmax_f |-> w.tmax_f, tmin_f |-> w.tmin_f,
     energy_mwh |-> e.energy_mwh, city |-> city, day_of_week |-> DayName(w.date)]

MergeInnerMutLeft(noaa_df, eia_df, city) ==
    DF(noaa_df.cols \cup eia_df.cols \cup {"city", "day_of_week"},
       [i \in 1..Len(noaa_df.rows) |->
           MergeRow(noaa_df.rows[i],
                    [date |-> noaa_df.rows[i].date, energy_mwh |-> NaN], city)])
MergeInner(noaa_df, eia_df, city) ==
    DF(noaa_df.cols \cup eia_df.cols \cup {"city", "day_of_week"},
       Flatten([i \in 1..Len(noaa_df.rows) |->
           LET w == noaa_df.rows[i]
               m == SelectSeq(eia_df.rows, LAMBDA e : e.date = w.date)
           IN [j \in 1..Len(m) |-> MergeRow(w, m[j], city)]]))

(***************************************************************************)
(* File names.  A string is a sequence of tokens; "x in y" on strings is   *)
(* Contains on token sequences.                                            *)
(***************************************************************************)
Contains(sub, str) ==
    \E i \in 1..(Len(str) - Len(sub) + 1) : SubSeq(str, i, i + Len(sub) - 1) = sub

\* str.replace(' ', '_')
ReplaceSpaces(str) == [i \in 1..Len(str) |-> IF str[i] = " " THEN "_" ELSE str[i]]

\* str.lower()
LowerTok(t) ==
    CASE t = "Houston" -> "houston"
      [] t = "New" -> "new"
      [] t = "York" -> "york"
      [] t = "L" -> "l"
      [] OTHER -> t
Lower(str) == [i \in 1..Len(str) |-> LowerTok(str[i])]

\* save_data, lines 89-90: f"{source}_{city_name.replace(' ', '_')}_{date_str}.json"
RawFileName(source, city_name, date_str) ==
    <<source, "_">> \o ReplaceSpaces(city_name) \o <<"_", date_str, ".json">>

\* process_all_data, line 165:
\* f'{city_name.lower().replace(" ", "_")}_processed.csv'
ProcessedFileNameMutNoLower(city_name) ==
    ReplaceSpaces(city_name) \o <<"_processed.csv">>
ProcessedFileName(city_name) ==
    ReplaceSpaces(Lower(city_name)) \o <<"_processed.csv">>

\* process_all_data, lines 133-139: the files of raw_files taken for a city
CityFiles(names, city_name) ==
    {f \in names : Contains(ReplaceSpaces(city_name), f)}
NoaaFiles(names, city_name) ==
    {f \in CityFiles(names, city_name) : Contains(<<"noaa">>, f)}
EiaFiles(names, city_name) ==
    {f \in CityFiles(names, city_name) : Contains(<<"eia">>, f)}

\* noaa_files[0] and eia_files[0] are the first of their lists in the order
\* os.listdir returned, which is arbitrary: nf and ef can be the two picks
\* exactly when some order of the files puts each first in its list
PicksPossible(nfs, efs, nf, ef) ==
    /\ nf \in nfs
    /\ ef \in efs
    /\ ~(nf # ef /\ nf \in efs /\ ef \in nfs)

(***************************************************************************)
(* The configuration and the API responses of a pipeline run               *)
(***************************************************************************)
Houston == <<"Houston">>
NewYork == <<"New", " ", "York">>
York == <<"York">>              \* a name that is part of another name
Leia == <<"L", "eia">>          \* a name that has 'eia' in it

Configs == { <<Houston, NewYork>>, <<York, NewYork>>, <<Leia>> }

NoaaRow(day, dt, v) == [date |-> <<day, 0>>, datatype |-> dt, value |-> v]
EiaRow(stamp, ty, tz, v) == [period |-> stamp, type |-> ty, timezone |-> tz, value |-> v]

NoaaBoth == Payload("list", <<NoaaRow(1, "TMAX", 250), NoaaRow(1, "TMIN", 150),
                              NoaaRow(2, "TMAX", 300), NoaaRow(2, "TMIN", 200)>>)
NoaaTmaxOnly == Payload("list", <<NoaaRow(1, "TMAX", 250), NoaaRow(2, "TMAX", 300)>>)
NoaaOld == Payload("list", <<NoaaRow(3, "TMAX", 100), NoaaRow(3, "TMIN", 50)>>)

EiaGood == Payload("list", <<EiaRow(<<1, 0>>, "D", "Eastern", NumVal(100)),
                             EiaRow(<<1, 0>>, "NG", "Eastern", NumVal(90)),
                             EiaRow(<<1, 0>>, "D", "Central", NumVal(100)),
                             EiaRow(<<3, 0>>, "D", "Eastern", NumVal(200))>>)
EiaNoDemand == Payload("list", <<EiaRow(<<1, 0>>, "NG", "Eastern", NumVal(90))>>)
EiaOld == Payload("list", <<EiaRow(<<3, 0>>, "D", "Eastern", NumVal(300))>>)

NoaaResponses ==
    {NoaaBoth, NoaaTmaxOnly, Payload("list", << >>), Payload("nokey", << >>),
     Payload("nondict", << >>), Payload("scalar", << >>)}
EiaResponses ==
    {EiaGood, EiaNoDemand, Payload("list", << >>), Payload("nokey", << >>),
     Payload("nondict", << >>), Payload("scalar", << >>)}

\* Responses func may return in SpecRetry.
RetryResponses == {Payload("list", << >>), Payload("nokey", << >>)}

\* A storage is a function from file names to files
NoFiles == [f \in {} |-> CorruptFile]
Put(store, name, file) ==
    [f \in DOMAIN store \cup {name} |-> IF f = name THEN file ELSE store[f]]

\* Raw storage an earlier run can have left: nothing, or Houston's files of
\* the same date range and New York's files of an older one
LeftoverRaw ==
    Put(Put(Put(Put(NoFiles,
        RawFileName("noaa", Houston, "r1"), JsonFile(NoaaOld)),
        RawFileName("eia", Houston, "r1"), JsonFile(EiaOld)),
        RawFileName("noaa", NewYork, "r0"), JsonFile(NoaaOld)),
        RawFileName("eia", NewYork, "r0"), JsonFile(EiaOld))

InitialRaw == {NoFiles, LeftoverRaw}

(***************************************************************************)
(* retry_request (data_fetcher.py 59-78)                                   *)
(***************************************************************************)
DefaultMaxRetries == 3
DefaultDelay == 5
DefaultBackoff == 2

RECURSIVE Pow(_, _)
Pow(b, e) == IF e = 0 THEN 1 ELSE b * Pow(b, e - 1)

\* wait = delay * (backoff ** (retries - 1)), line 69
WaitMutNoBackoff(d, b, r) == d
Wait(d, b, r) == d * Pow(b, r - 1)

CallEv(out, v) == [ev |-> "call", out |-> out, secs |-> 0, val |-> v]
SleepEv(s) == [ev |-> "sleep", out |-> "", secs |-> s, val |-> NonePayload]

\* what func can return: make_api_request returns response.json() of the
\* weather API inside a pipeline run
FuncResponses == IF pc = "noaa" THEN NoaaResponses ELSE RetryResponses

\* line 66: func returns, wrapper returns its value
WrapperCallReturns ==
    /\ wpc = "loop"
    /\ retries < max_retries
    /\ \E v \in FuncResponses :
          /\ wresult' = v
          /\ wlog' = Append(wlog, CallEv("ok", v))
    /\ wpc' = "returned"
    /\ UNCHANGED <<max_retries, delay, backoff, retries, pvars, jvars, avars, cvars, mvars>>

\* line 73: if retries == max_retries
RaiseAtMutOneMore(r, m) == r = m + 1
RaiseAt(r, m) == r = m

\* lines 67-76: func raises a requests RequestException
WrapperCallRequestException ==
    /\ wpc = "loop"
    /\ retries < max_retries
    /\ retries' = retries + 1
    /\ IF RaiseAt(retries', max_retries)
         THEN /\ wpc' = "raised"
              /\ wlog' = Append(wlog, CallEv("reqexc", NonePayload))
         ELSE /\ wpc' = "loop"
              /\ wlog' = wlog \o <<CallEv("reqexc", NonePayload),
                                   SleepEv(Wait(delay, backoff, retries'))>>
    /\ UNCHANGED <<max_retries, delay, backoff, wresult, pvars, jvars, avars, cvars, mvars>>

\* line 66: func raises something that is not a RequestException; the
\* except clause does not match and the exception leaves wrapper at once
WrapperCallOtherException ==
    /\ wpc = "loop"
    /\ retries < max_retries
    /\ wpc' = "raised"
    /\ wlog' = Append(wlog, CallEv("other", NonePayload))
    /\ UNCHANGED <<max_retries, delay, backoff, retries, wresult, pvars, jvars, avars, cvars, mvars>>

\* line 64: the while condition is false; wrapper falls off its end
WrapperLoopExit ==
    /\ wpc = "loop"
    /\ ~(retries < max_retries)
    /\ wpc' = "returned"
    /\ wresult' = NonePayload
    /\ UNCHANGED <<max_retries, delay, backoff, retries, wlog, pvars, jvars, avars, cvars, mvars>>

\* wrapper is entered (line 63)
WrapperFresh ==
    /\ retries = 0
    /\ wpc = "loop"
    /\ wlog = << >>
    /\ wresult = NonePayload

\* no call of wrapper is under way
WrapperIdle ==
    /\ retries = 0
    /\ wpc = "idle"
    /\ wlog = << >>
    /\ wresult = NonePayload

(***************************************************************************)
(* Views of wlog                                                           *)
(***************************************************************************)
Calls == SelectSeq(wlog, LAMBDA e : e.ev = "call")
Sleeps == SelectSeq(wlog, LAMBDA e : e.ev = "sleep")
FailedCalls == SelectSeq(wlog, LAMBDA e : e.ev = "call" /\ e.out = "reqexc")

RECURSIVE SumSecs(_)
SumSecs(s) == IF s = << >> THEN 0 ELSE Head(s).secs + SumSecs(Tail(s))

RECURSIVE BackoffSum(_, _, _)
BackoffSum(d, b, k) == IF k = 0 THEN 0 ELSE d * Pow(b, k - 1) + BackoffSum(d, b, k - 1)

AllCallsFailed == Len(FailedCalls) = Len(Calls)

\* every sleep in the log stands between two calls
SleepsOnlyBetweenCalls ==
    \A i \in 1..Len(wlog) :
        wlog[i].ev = "sleep" =>
            /\ i > 1 /\ wlog[i-1].ev = "call"
            /\ (wpc # "loop" => i < Len(wlog) /\ wlog[i+1].ev = "call")

(***************************************************************************)
(* State of the parts a specification does not exercise                    *)
(***************************************************************************)
Keys(n) == {"noaa", "eia"} \X (1..n)

NoReport == [state |-> "absent", run |-> "none", files |-> {}]
OldReport == [state |-> "written", run |-> "earlier", files |-> {}]

AbsentFile == [state |-> "absent", payload |-> NonePayload]
FileAt(store, name) == IF name \in DOMAIN store THEN store[name] ELSE AbsentFile

NoFetch == [key |-> <<"none", 0>>, name |-> << >>, result |-> "pending",
            payload |-> NonePayload, save |-> "none", requests |-> 0,
            before |-> AbsentFile]
NoProc == [status |-> "pending", noaa |-> "none", eia |-> "none",
           nf |-> << >>, ef |-> << >>]

PipelineUnused ==
    /\ pc = "unused"
    /\ env = [configOk |-> TRUE, noaaToken |-> "valid", eiaKey |-> "valid"]
    /\ cities = << >>
    /\ range = "r1"
    /\ ci = 1
    /\ attempted = {}
    /\ lastFetch = NoFetch
    /\ writes = {}
    /\ raw0 = NoFiles
    /\ raw = NoFiles
    /\ procLog = [i \in 1..0 |-> NoProc]
    /\ processed = NoFiles
    /\ report = NoReport
    /\ stages = << >>

NoJoinOutput ==
    [status |-> "pending", noaa_df |-> NoneDF, eia_df |-> NoneDF, merged_df |-> NoneDF]

JoinUnused ==
    /\ jin = [noaa |-> CorruptFile, eia |-> CorruptFile]
    /\ jout = NoJoinOutput

\* check_outliers has not returned
NoOutliers == [k \in {"pending"} |-> << >>]

AnalysisUnused ==
    /\ combined_df = << >>
    /\ outliers = NoOutliers

\* tenths_c_to_f has not been called
NotConverted == << >>

ConvertUnused ==
    /\ temp_in_tenths_c = <<NaN, NaN>>
    /\ fahrenheit = NotConverted

\* An optional argument is None, the empty tuple, or <<v>> for the value v
None == << >>
Some(v) == <<v>>

NoArgs == [start_date |-> None, end_date |-> None, days |-> None,
           two_weeks_ahead |-> FALSE]
NoWindow == [start |-> None, end |-> None]

WindowUnused ==
    /\ args = NoArgs
    /\ command = << >>
    /\ window = NoWindow

(***************************************************************************)
(* SpecRetry: retry_request with arbitrary arguments around a func that    *)
(* returns or raises as it likes                                           *)
(***************************************************************************)
InitRetry ==
    /\ max_retries \in 0..MaxRetriesArg
    /\ delay \in {1, 5}
    /\ backoff \in {1, 2, 3}
    /\ WrapperFresh
    /\ PipelineUnused
    /\ JoinUnused
    /\ AnalysisUnused
    /\ ConvertUnused
    /\ WindowUnused

NextRetry ==
    \/ WrapperCallReturns
    \/ WrapperCallRequestException
    \/ WrapperCallOtherException
    \/ WrapperLoopExit

SpecRetry == InitRetry /\ [][NextRetry]_vars

(***************************************************************************)
(* fetch_data_for_range (data_fetcher.py 135-173), run by run_pipeline as  *)
(* a child process (pipeline.py 41-59)                                     *)
(***************************************************************************)
\* lines 144 and 147: the credential is set and is not the placeholder
CredentialOk(c) == c = "valid"

\* lines 159 and 168: if data.get(<key>)
ShouldSaveMutAlways(p) == TRUE
ShouldSave(p) == Truthy(p)

\* lines 163 and 172, except Exception: every error of the try block is caught
CatchesMutRequestOnly(err) == err = "reqexc"
Catches(err) == TRUE

\* save_data, lines 91-96: the file is written; or open() fails and the old
\* file stays; or the write fails part-way and leaves broken JSON.  The
\* IOError is logged in both cases and not raised.
SaveOutcomes == {"ok", "open_fail", "write_fail"}
SaveData(store, name, p, outcome) ==
    CASE outcome = "ok" -> Put(store, name, JsonFile(p))
      [] outcome = "open_fail" -> store
      [] outcome = "write_fail" -> Put(store, name, CorruptFile)

\* the error the try block of one source ends with, "none" if it has none;
\* .get on a payload that is no dict raises AttributeError
TryError(result, p) ==
    IF result # "returned" THEN result
    ELSE IF p.kind = "nondict" THEN "attr"
    ELSE "none"

\* lines 157-164 and 166-173 after the fetch call: save or warn
HandleFetched(source, result, p, nreq) ==
    LET name == RawFileName(source, cities[ci], range)
        rec(o) == [key |-> <<source, ci>>, name |-> name, result |-> result,
                   payload |-> p, save |-> o, requests |-> nreq,
                   before |-> FileAt(raw, name)]
    IN /\ attempted' = attempted \cup {<<source, ci>>}
       /\ IF TryError(result, p) = "none" /\ ShouldSave(p)
            THEN \E o \in SaveOutcomes :
                   /\ raw' = SaveData(raw, name, p, o)
                   /\ writes' = IF o = "ok" THEN writes \cup {name} ELSE writes
                   /\ lastFetch' = rec(o)
            ELSE /\ raw' = raw
                 /\ writes' = writes
                 /\ lastFetch' = rec("none")

\* the for loops over config['cities'] (data_fetcher.py 153,
\* data_processor.py 127): there is a city after the i-th
MoreCitiesMutStopEarly(i, cs) == i < Len(cs) - 1
MoreCities(i, cs) == i < Len(cs)

WrapperEnter ==
    /\ retries' = 0
    /\ wpc' = "loop"
    /\ wlog' = << >>
    /\ wresult' = NonePayload

WrapperLeave ==
    /\ retries' = 0
    /\ wpc' = "idle"
    /\ wlog' = << >>
    /\ wresult' = NonePayload

\* pipeline.py 41-59 and data_fetcher.py 137-151: the child process starts,
\* loads the configuration and checks the credentials.  load_config raising
\* ends the child with a non-zero status and subprocess.run(check=True)
\* raises; a bad credential makes fetch_data_for_range return, the child
\* exits with status 0.
FetcherStart ==
    /\ pc = "start"
    /\ IF ~env.configOk
         THEN /\ pc' = "aborted"
              /\ stages' = Append(stages, "fetch")
              /\ UNCHANGED <<ci, retries, wpc, wlog, wresult>>
         ELSE IF ~CredentialOk(env.noaaToken) \/ ~CredentialOk(env.eiaKey)
                   \/ cities = << >>
         THEN /\ pc' = "fetched"
              /\ stages' = Append(stages, "fetch")
              /\ UNCHANGED <<ci, retries, wpc, wlog, wresult>>
         ELSE /\ pc' = "noaa"
              /\ ci' = 1
              /\ stages' = Append(stages, "fetch")
              /\ WrapperEnter
    /\ UNCHANGED <<max_retries, delay, backoff, env, cities, range, attempted,
                   lastFetch, writes, raw0, raw, procLog, processed, report, jvars, avars, cvars, mvars>>

\* lines 157-164: fetch_noaa_data has returned or raised (make_api_request
\* under retry_request); save or warn; go on to the demand source
NoaaFinish ==
    /\ pc = "noaa"
    /\ wpc \in {"returned", "raised"}
    /\ LET result == IF wpc = "returned" THEN "returned"
                     ELSE wlog[Len(wlog)].out
       IN /\ HandleFetched("noaa", result, wresult, Len(Calls))
          /\ pc' = IF Catches(TryError(result, wresult)) THEN "eia" ELSE "aborted"
    /\ WrapperLeave
    /\ UNCHANGED <<max_retries, delay, backoff, env, cities, range, ci, raw0,
                   procLog, processed, report, stages, jvars, avars, cvars, mvars>>

\* lines 166-173 with fetch_eia_data (114-131): one requests.get, no retry;
\* save or warn; go on to the next city or leave the loop
EiaFetch ==
    /\ pc = "eia"
    /\ \E result \in {"returned", "reqexc", "other"} :
         \E p \in (IF result = "returned" THEN EiaResponses ELSE {NonePayload}) :
            /\ HandleFetched("eia", result, p, 1)
            /\ IF ~Catches(TryError(result, p))
                 THEN /\ pc' = "aborted"
                      /\ UNCHANGED <<ci, retries, wpc, wlog, wresult>>
                 ELSE IF MoreCities(ci, cities)
                 THEN /\ pc' = "noaa"
                      /\ ci' = ci + 1
                      /\ WrapperEnter
                 ELSE /\ pc' = "fetched"
                      /\ UNCHANGED <<ci, retries, wpc, wlog, wresult>>
    /\ UNCHANGED <<max_retries, delay, backoff, env, cities, range, raw0,
                   procLog, processed, report, stages, jvars, avars, cvars, mvars>>

\* pipeline.py 59-62: the child has exited with status 0, subprocess.run
\* returns and process_all_data is called
FetcherExit ==
    /\ pc = "fetched"
    /\ pc' = "process"
    /\ ci' = 1
    /\ lastFetch' = NoFetch
    /\ stages' = Append(stages, "process")
    /\ UNCHANGED <<wvars, env, cities, range, attempted, writes, raw0, raw,
                   procLog, processed, report, jvars, avars, cvars, mvars>>

(***************************************************************************)
(* process_all_data (data_processor.py 114-173)                            *)
(***************************************************************************)
\* The file f as the normalizer of source reads it.  The name of a raw file
\* starts with the source whose response it holds (save_data, 89); the
\* response of the other source is a dictionary without the key the
\* normalizer looks up.
RawAs(source, store, f) ==
    IF f[1] # source /\ store[f].state = "json"
         /\ store[f].payload.kind \in {"list", "scalar"}
      THEN JsonFile(Payload("nokey", << >>))
      ELSE store[f]

DfKind(df) ==
    IF df.kind # "df" THEN df.kind ELSE IF IsEmpty(df) THEN "empty" ELSE "rows"

\* lines 149-163 for one city: normalize both files, test for empty, merge.
\* None.empty raises AttributeError; `or` does not evaluate eia_df.empty
\* when noaa_df.empty is true.
ProcessOutcome(nfile, efile, city_name) ==
    LET noaa_df == process_noaa_data(nfile)
        eia_df == process_eia_data(efile)
        out(st, e, m) == [status |-> st, noaa_df |-> noaa_df, eia_df |-> e,
                          merged_df |-> m]
    IN IF noaa_df.kind = "raised" THEN out("crashed", NotRunDF, NoneDF)
       ELSE IF eia_df.kind = "raised" THEN out("crashed", eia_df, NoneDF)
       ELSE IF noaa_df.kind = "None" THEN out("crashed", eia_df, NoneDF)
       ELSE IF IsEmpty(noaa_df) THEN out("skipped", eia_df, NoneDF)
       ELSE IF eia_df.kind = "None" THEN out("crashed", eia_df, NoneDF)
       ELSE IF IsEmpty(eia_df) THEN out("skipped", eia_df, NoneDF)
       ELSE out("merged", eia_df, MergeInner(noaa_df, eia_df, city_name))

\* lines 127-171: the loop body for city ci.  to_csv either writes the file
\* or fails with an IOError that is logged.
ProcessCity ==
    /\ pc = "process"
    /\ LET city_name == cities[ci]
           nfs == NoaaFiles(DOMAIN raw, city_name)
           efs == EiaFiles(DOMAIN raw, city_name)
           log(st, o, nf, ef) ==
               [status |-> st, noaa |-> DfKind(o.noaa_df), eia |-> DfKind(o.eia_df),
                nf |-> nf, ef |-> ef]
           advance ==
               IF MoreCities(ci, cities)
                 THEN pc' = "process" /\ ci' = ci + 1 /\ UNCHANGED stages
                 ELSE pc' = "report" /\ ci' = ci /\ stages' = Append(stages, "report")
       IN IF nfs = {} \/ efs = {}
            THEN /\ procLog' = [procLog EXCEPT ![ci] = [NoProc EXCEPT !.status = "nofiles"]]
                 /\ processed' = processed
                 /\ advance
            ELSE \E nf \in nfs, ef \in efs :
                   /\ PicksPossible(nfs, efs, nf, ef)
                   /\ LET o == ProcessOutcome(RawAs("noaa", raw, nf),
                                               RawAs("eia", raw, ef), city_name)
                      IN CASE o.status = "crashed" ->
                                /\ procLog' = [procLog EXCEPT ![ci] = log("crashed", o, nf, ef)]
                                /\ processed' = processed
                                /\ pc' = "crashed"
                                /\ UNCHANGED <<ci, stages>>
                           [] o.status = "skipped" ->
                                /\ procLog' = [procLog EXCEPT ![ci] = log("skipped", o, nf, ef)]
                                /\ processed' = processed
                                /\ advance
                           [] o.status = "merged" ->
                                /\ \E io \in {"written", "ioerror"} :
                                      /\ procLog' = [procLog EXCEPT ![ci] = log(io, o, nf, ef)]
                                      /\ processed' =
                                           IF io = "written"
                                             THEN Put(processed, ProcessedFileName(city_name),
                                                      o.merged_df)
                                             ELSE processed
                                /\ advance
    /\ UNCHANGED <<wvars, env, cities, range, attempted, lastFetch, writes, raw0,
                   raw, report, jvars, avars, cvars, mvars>>

(***************************************************************************)
(* check_outliers (analysis.py 35-49)                                      *)
(***************************************************************************)
\* a < b on floats; a comparison with NaN is False
FracLt(a, b) == a # NaN /\ b # NaN /\ a[1] * b[2] < b[1] * a[2]
FracGt(a, b) == FracLt(b, a)

TempHigh == Frac(130, 1)
TempLow == Frac(-50, 1)
EnergyLow == Frac(0, 1)

\* line 40: the mask of temp_outliers
TempMaskMutInclusive(r) ==
    \/ FracGt(r.tmax_f, TempHigh) \/ r.tmax_f = TempHigh
    \/ FracLt(r.tmax_f, TempLow)
    \/ FracGt(r.tmin_f, TempHigh)
    \/ FracLt(r.tmin_f, TempLow)
TempMask(r) ==
    \/ FracGt(r.tmax_f, TempHigh)
    \/ FracLt(r.tmax_f, TempLow)
    \/ FracGt(r.tmin_f, TempHigh)
    \/ FracLt(r.tmin_f, TempLow)

\* line 45: the mask of energy_outliers
EnergyMask(r) == FracLt(r.energy_mwh, EnergyLow)

\* the dictionary returned: a key is set only when its frame has rows
check_outliers(df) ==
    LET temp_outliers == SelectSeq(df, TempMask)
        energy_outliers == SelectSeq(df, EnergyMask)
        keys == (IF temp_outliers # << >> THEN {"temperature_outliers"} ELSE {})
                  \cup (IF energy_outliers # << >> THEN {"energy_outliers"} ELSE {})
    IN [k \in keys |-> IF k = "temperature_outliers" THEN temp_outliers
                       ELSE energy_outliers]

(***************************************************************************)
(* generate_quality_report (analysis.py 64-125)                            *)
(***************************************************************************)
\* the orders in which os.listdir can return the files
Orders(names) ==
    {q \in [1..Cardinality(names) -> names] : Range(q) = names}

\* No processed file: return without a report.  Otherwise the files are
\* concatenated in the order of os.listdir (82); check_outliers (87) raises
\* KeyError when a column it reads is in none of them, check_data_freshness
\* (88) raises when there is no row at all (strftime of NaT); else the
\* report is written, or open() fails with an IOError that is logged.
GenerateReport ==
    /\ pc = "report"
    /\ LET names == DOMAIN processed
           cols == UNION {processed[f].cols : f \in names}
       IN IF names = {}
            THEN pc' = "finished" /\ UNCHANGED <<report, avars>>
            ELSE \E processed_files \in Orders(names) :
              /\ combined_df' = Flatten([i \in 1..Len(processed_files) |->
                                           processed[processed_files[i]].rows])
              /\ IF ~({"tmax_f", "tmin_f", "energy_mwh"} \subseteq cols)
                   THEN pc' = "crashed" /\ UNCHANGED <<report, outliers>>
                   ELSE /\ outliers' = check_outliers(combined_df')
                        /\ IF combined_df' = << >>
                             THEN pc' = "crashed" /\ report' = report
                             ELSE /\ pc' = "finished"
                                  /\ \E io \in {"written", "ioerror"} :
                                       report' =
                                         IF io = "written"
                                           THEN [state |-> "written", run |-> "this",
                                                 files |-> names]
                                           ELSE report
    /\ UNCHANGED <<wvars, env, cities, range, ci, attempted, lastFetch, writes,
                   raw0, raw, procLog, processed, stages, jvars, cvars, mvars>>

(***************************************************************************)
(* Spec: one run of run_pipeline                                           *)
(***************************************************************************)
Envs == [configOk : BOOLEAN,
         noaaToken : {"valid", "unset", "placeholder"},
         eiaKey : {"valid", "unset", "placeholder"}]

\* Processed storage an earlier run can have left
LeftoverProcessed ==
    Put(NoFiles, ProcessedFileName(Houston),
        MergeInner(process_noaa_data(JsonFile(NoaaOld)),
                   process_eia_data(JsonFile(EiaOld)), Houston))

Init ==
    /\ max_retries = DefaultMaxRetries
    /\ delay = DefaultDelay
    /\ backoff = DefaultBackoff
    /\ WrapperIdle
    /\ pc = "start"
    /\ env \in Envs
    /\ cities \in Configs
    /\ range = "r1"
    /\ ci = 1
    /\ attempted = {}
    /\ lastFetch = NoFetch
    /\ writes = {}
    /\ raw0 \in InitialRaw
    /\ raw = raw0
    /\ procLog = [i \in 1..Len(cities) |-> NoProc]
    /\ \/ processed = NoFiles /\ report = NoReport
       \/ processed = LeftoverProcessed /\ report = OldReport
    /\ stages = << >>
    /\ JoinUnused
    /\ AnalysisUnused
    /\ ConvertUnused
    /\ WindowUnused

Next ==
    \/ FetcherStart
    \/ WrapperCallReturns
    \/ WrapperCallRequestException
    \/ WrapperCallOtherException
    \/ NoaaFinish
    \/ EiaFetch
    \/ FetcherExit
    \/ ProcessCity
    \/ GenerateReport

Spec == Init /\ [][Next]_vars

(***************************************************************************)
(* SpecJoin: the loop body of process_all_data on every pair of raw files  *)
(* with bounded lists of rows                                              *)
(***************************************************************************)
SeqsUpTo(S, n) == UNION {[1..k -> S] : k \in 0..n}

NoaaRowDomain ==
    {NoaaRow(1, "TMAX", 250), NoaaRow(2, "TMAX", 300), NoaaRow(2, "TMAX", 320),
     NoaaRow(1, "TMIN", 150),
     [date |-> <<1, 12>>, datatype |-> "TMAX", value |-> 260]}

EiaRowDomain ==
    {EiaRow(<<1, 0>>, "D", "Eastern", NumVal(100)),
     EiaRow(<<3, 0>>, "D", "Eastern", NumVal(200)),
     EiaRow(<<1, 0>>, "D", "Eastern", NumVal(150)),
     EiaRow(<<1, 0>>, "D", "Central", NullVal),
     EiaRow(<<1, 0>>, "D", "Pacific", NumVal(300)),
     EiaRow(<<1, 0>>, "D", "Central", JunkVal),
     EiaRow(<<2, 12>>, "NG", "Eastern", NumVal(90))}

OtherFiles ==
    {JsonFile(Payload("nokey", << >>)), JsonFile(Payload("scalar", << >>)), CorruptFile}

JoinNoaaFiles ==
    {JsonFile(Payload("list", r)) : r \in SeqsUpTo(NoaaRowDomain, MaxNoaaRows)}
      \cup OtherFiles
JoinEiaFiles ==
    {JsonFile(Payload("list", r)) : r \in SeqsUpTo(EiaRowDomain, MaxEiaRows)}
      \cup OtherFiles

InitJoin ==
    /\ max_retries = DefaultMaxRetries
    /\ delay = DefaultDelay
    /\ backoff = DefaultBackoff
    /\ WrapperIdle
    /\ PipelineUnused
    /\ jin \in [noaa : JoinNoaaFiles, eia : JoinEiaFiles]
    /\ jout = NoJoinOutput
    /\ AnalysisUnused
    /\ ConvertUnused
    /\ WindowUnused

\* data_processor.py 149-163 for the city Houston
JoinRun ==
    /\ jout.status = "pending"
    /\ jout' = ProcessOutcome(jin.noaa, jin.eia, Houston)
    /\ UNCHANGED <<wvars, pvars, jin, avars, cvars, mvars>>

NextJoin == JoinRun

SpecJoin == InitJoin /\ [][NextJoin]_vars

(***************************************************************************)
(* SpecOutliers: check_outliers on every combined frame with a bounded     *)
(* number of records                                                       *)
(***************************************************************************)
Record(tmax, tmin, energy) ==
    [tmax_f |-> tmax, tmin_f |-> tmin, energy_mwh |-> energy]

\* an ordinary record, records that differ from it in one column, and
\* records out of range in two columns
RecordDomain ==
    {Record(Frac(100, 1), Frac(50, 1), Frac(100, 1))}
      \cup {Record(t, Frac(50, 1), Frac(100, 1)) :
               t \in {Frac(135, 1), Frac(130, 1), Frac(1301, 10), Frac(-50, 1),
                      Frac(-501, 10), NaN}}
      \cup {Record(Frac(100, 1), t, Frac(100, 1)) :
               t \in {Frac(131, 1), Frac(130, 1), Frac(-50, 1), Frac(-51, 1), NaN}}
      \cup {Record(Frac(100, 1), Frac(50, 1), e) :
               e \in {Frac(-5, 1), Frac(0, 1), Frac(-1, 10), NaN}}
      \cup {Record(Frac(135, 1), Frac(50, 1), Frac(-5, 1)),
            Record(Frac(130, 1), Frac(-50, 1), Frac(0, 1))}

InitOutliers ==
    /\ max_retries = DefaultMaxRetries
    /\ delay = DefaultDelay
    /\ backoff = DefaultBackoff
    /\ WrapperIdle
    /\ PipelineUnused
    /\ JoinUnused
    /\ combined_df \in SeqsUpTo(RecordDomain, MaxRecords)
    /\ outliers = NoOutliers
    /\ ConvertUnused
    /\ WindowUnused

\* analysis.py 87: outliers = check_outliers(combined_df)
CheckOutliersRun ==
    /\ outliers = NoOutliers
    /\ outliers' = check_outliers(combined_df)
    /\ UNCHANGED <<wvars, pvars, jvars, combined_df, cvars, mvars>>

NextOutliers == CheckOutliersRun

SpecOutliers == InitOutliers /\ [][NextOutliers]_vars

(***************************************************************************)
(* SpecConvert: tenths_c_to_f on every pair of bounded readings; a reading *)
(* is an integer number of tenths or is missing                            *)
(***************************************************************************)
Readings == {Frac(t, 1) : t \in (-MaxTenths)..MaxTenths} \cup {NaN}

InitConvert ==
    /\ max_retries = DefaultMaxRetries
    /\ delay = DefaultDelay
    /\ backoff = DefaultBackoff
    /\ WrapperIdle
    /\ PipelineUnused
    /\ JoinUnused
    /\ AnalysisUnused
    /\ temp_in_tenths_c \in Readings \X Readings
    /\ fahrenheit = NotConverted
    /\ WindowUnused

\* data_processor.py 70: weather_df[col].apply(tenths_c_to_f)
ConvertRun ==
    /\ fahrenheit = NotConverted
    /\ fahrenheit' = <<tenths_c_to_f(temp_in_tenths_c[1]),
                       tenths_c_to_f(temp_in_tenths_c[2])>>
    /\ UNCHANGED <<wvars, pvars, jvars, avars, temp_in_tenths_c, mvars>>

NextConvert == ConvertRun

SpecConvert == InitConvert /\ [][NextConvert]_vars

(***************************************************************************)
(* SpecWindow: the fetch window run_pipeline selects (pipeline.py 41-59)   *)
(* and the fetcher's entry point derives (data_fetcher.py 175-226).  A     *)
(* date is a number of days counted from today, the day the fetcher runs.  *)
(***************************************************************************)
DefaultDays == 90       \* pipeline.py 56, data_fetcher.py 221
WeeksAhead == 2         \* data_fetcher.py 187
DaysPerWeek == 7

\* Python truthiness of an optional int and of an optional date string
TruthyInt(x) == x # None /\ x[1] # 0
TruthyDate(x) == x # None

Option(flag, arg) == [flag |-> flag, arg |-> arg]

\* pipeline.py 43-56: the options appended to the command
BuildCommand(a) ==
    IF a.two_weeks_ahead THEN <<Option("--two-weeks-ahead", None)>>
    ELSE IF TruthyInt(a.days) THEN <<Option("--days", a.days)>>
    ELSE IF TruthyDate(a.start_date) /\ TruthyDate(a.end_date)
      THEN <<Option("--start-date", a.start_date),
             Option("--end-date", a.end_date)>>
    ELSE <<Option("--days", Some(DefaultDays))>>

\* data_fetcher.py 194-213: parser.parse_args() on the command
HasOption(cmd, flag) == \E i \in 1..Len(cmd) : cmd[i].flag = flag
OptionArg(cmd, flag) ==
    IF HasOption(cmd, flag)
      THEN cmd[CHOOSE i \in 1..Len(cmd) : cmd[i].flag = flag].arg
      ELSE None
parse_args(cmd) ==
    [start_date |-> OptionArg(cmd, "--start-date"),
     end_date |-> OptionArg(cmd, "--end-date"),
     days |-> OptionArg(cmd, "--days"),
     two_weeks_ahead |-> HasOption(cmd, "--two-weeks-ahead")]

Window(s, e) == [start |-> Some(s), end |-> Some(e)]

\* fetch_historical_data (175-181) and fetch_two_weeks_ahead (183-189)
fetch_historical_data(days) == Window(0 - days, 0)
fetch_two_weeks_ahead == Window(0, WeeksAhead * DaysPerWeek)

\* data_fetcher.py 215-226: the window fetch_data_for_range is called with
FetcherMain(a) ==
    IF TruthyInt(a.days) THEN fetch_historical_data(a.days[1])
    ELSE IF a.two_weeks_ahead THEN fetch_two_weeks_ahead
    ELSE Window(IF TruthyDate(a.start_date) THEN a.start_date[1]
                  ELSE 0 - DefaultDays,
                IF TruthyDate(a.end_date) THEN a.end_date[1] ELSE 0)

\* the arguments a caller of run_pipeline can pass
DayCounts == {0, 1, 30, DefaultDays}
DateArgs == {-400, -300}
ArgSets ==
    [start_date : {None} \cup {Some(d) : d \in DateArgs},
     end_date : {None} \cup {Some(d) : d \in DateArgs},
     days : {None} \cup {Some(n) : n \in DayCounts},
     two_weeks_ahead : BOOLEAN]

InitWindow ==
    /\ max_retries = DefaultMaxRetries
    /\ delay = DefaultDelay
    /\ backoff = DefaultBackoff
    /\ WrapperIdle
    /\ PipelineUnused
    /\ JoinUnused
    /\ AnalysisUnused
    /\ ConvertUnused
    /\ args \in ArgSets
    /\ command = << >>
    /\ window = NoWindow

\* pipeline.py 41-56: run_pipeline builds the command
RunPipelineBuildsCommand ==
    /\ command = << >>
    /\ command' = BuildCommand(args)
    /\ UNCHANGED <<wvars, pvars, jvars, avars, cvars, args, window>>

\* pipeline.py 59 and data_fetcher.py 213-226: the fetcher parses the command
\* and calls fetch_data_for_range
FetcherSelectsWindow ==
    /\ command # << >>
    /\ window = NoWindow
    /\ window' = FetcherMain(parse_args(command))
    /\ UNCHANGED <<wvars, pvars, jvars, avars, cvars, args, command>>

NextWindow ==
    \/ RunPipelineBuildsCommand
    \/ FetcherSelectsWindow

SpecWindow == InitWindow /\ [][NextWindow]_vars

(***************************************************************************)
(* Claims                                                                  *)
(***************************************************************************)
\* C1: for max_retries >= 1, when func fails with a RequestException on every
\* call, wrapper ends by raising after exactly max_retries calls, having slept
\* only between calls (max_retries - 1 sleeps, none after the last call), and
\* at no time are there more than max_retries calls.
C1_ExactlyMaxRetriesThenRaise ==
    /\ Len(Calls) <= max_retries
    /\ SleepsOnlyBetweenCalls
    /\ (max_retries >= 1 /\ AllCallsFailed /\ wpc # "loop") =>
          /\ wpc = "raised"
          /\ wresult = NonePayload
          /\ Len(Calls) = max_retries
          /\ Len(Sleeps) = max_retries - 1
          /\ wlog[Len(wlog)].ev = "call"

C1_Witness ==
    /\ max_retries = 3
    /\ wpc = "raised"
    /\ AllCallsFailed
    /\ Len(Calls) = 3

\* C2: when func fails k < max_retries times and then succeeds, wrapper
\* returns the value of the successful call and the total time slept is the
\* sum of delay * backoff^(i-1) for i = 1..k (15 for k = 2, delay 5, backoff 2).
C2_BackoffSum ==
    (wpc = "returned" /\ Len(Calls) > 0) =>
        LET k == Len(FailedCalls) IN
        /\ k < max_retries
        /\ Len(Calls) = k + 1
        /\ wlog[Len(wlog)].ev = "call" /\ wlog[Len(wlog)].out = "ok"
        /\ wresult = wlog[Len(wlog)].val
        /\ wresult # NonePayload
        /\ SumSecs(Sleeps) = BackoffSum(delay, backoff, k)
        /\ (k = 2 /\ delay = 5 /\ backoff = 2) => SumSecs(Sleeps) = 15

C2_Witness ==
    /\ wpc = "returned"
    /\ Len(FailedCalls) = 2
    /\ delay = 5 /\ backoff = 2
    /\ SumSecs(Sleeps) = 15

\* the noaa fetch of a pipeline run does go through retry_request: it ends
\* with a RequestException only after max_retries requests
NoaaFetchRetried ==
    (lastFetch.key[1] = "noaa" /\ lastFetch.result = "reqexc") =>
        lastFetch.requests = max_retries

\* C3: a demand-source fetch that fails with a transient request error is
\* retried exactly as a weather-source fetch: it escalates to a skip only
\* after max_retries (3) requests.
C3_DemandFetchRetried ==
    (lastFetch.key[1] = "eia" /\ lastFetch.result = "reqexc") =>
        lastFetch.requests = max_retries

ConfigError ==
    \/ ~env.configOk
    \/ env.noaaToken # "valid"
    \/ env.eiaKey # "valid"

\* under a configuration error no fetch is made and no request is issued
NoRequestOnConfigError ==
    ConfigError => (attempted = {} /\ wlog = << >> /\ lastFetch = NoFetch)

\* C4: when the configuration cannot be loaded or a credential is missing or
\* a placeholder, no HTTP request is issued and the run does not enter the
\* processing or the quality-report stage.
C4_ConfigErrorAbortsRun ==
    ConfigError =>
        /\ attempted = {} /\ wlog = << >>
        /\ "process" \notin Range(stages)
        /\ "report" \notin Range(stages)

FetchLoopOver == pc \in {"fetched", "process", "report", "finished", "crashed"}

\* C5: with a loadable configuration and credentials, the fetch loop is never
\* cut short: whatever the earlier fetches and saves did, the loop reaches
\* every city and makes both its weather fetch and its demand fetch, each
\* issuing at least one request.
C5_FetchFailuresIsolated ==
    ~ConfigError =>
        /\ pc # "aborted"
        /\ lastFetch.result # "pending" => lastFetch.requests >= 1
        /\ pc = "noaa" => attempted = Keys(ci - 1)
        /\ pc = "eia" => attempted = Keys(ci - 1) \cup {<<"noaa", ci>>}
        /\ FetchLoopOver => attempted = Keys(Len(cities))

C5_Witness ==
    /\ pc = "fetched"
    /\ attempted = Keys(Len(cities))
    /\ Len(cities) = 2
    /\ writes = {}
    /\ lastFetch.result = "reqexc"

\* C6 as claimed: the raw file of the key is written if and only if the fetch
\* succeeded and the expected top-level value is a non-empty list; otherwise
\* the storage at the key is unchanged; a written file holds the new payload.
C6_WrittenIffNonEmptyList ==
    lastFetch.result # "pending" =>
        LET good == /\ lastFetch.result = "returned"
                    /\ lastFetch.payload.kind = "list"
                    /\ lastFetch.payload.rows # << >>
        IN /\ lastFetch.name \in writes <=> good
           /\ good => raw[lastFetch.name] = JsonFile(lastFetch.payload)
           /\ ~good => FileAt(raw, lastFetch.name) = lastFetch.before

\* C6 amended: the raw file of the key is written if and only if the fetch
\* succeeded, the expected top-level value is truthy (a non-empty list, or a
\* non-list value, which the code does not tell apart) and the write met no
\* I/O error; a written file replaces the prior file with the new payload; an
\* empty or malformed response leaves the storage at the key unchanged.
C6_WrittenIffTruthyAndNoIOError ==
    lastFetch.result # "pending" =>
        LET truthy == /\ lastFetch.result = "returned"
                      /\ \/ lastFetch.payload.kind = "scalar"
                         \/ /\ lastFetch.payload.kind = "list"
                            /\ lastFetch.payload.rows # << >>
            ioerror == lastFetch.save \in {"open_fail", "write_fail"}
        IN /\ lastFetch.name \in writes <=> (truthy /\ ~ioerror)
           /\ lastFetch.name \in writes =>
                 raw[lastFetch.name] = JsonFile(lastFetch.payload)
           /\ ~truthy => /\ FileAt(raw, lastFetch.name) = lastFetch.before
                         /\ lastFetch.save = "none"

C6_Witness ==
    /\ lastFetch.save = "ok"
    /\ lastFetch.name \in writes
    /\ lastFetch.before.state = "json"
    /\ lastFetch.before # raw[lastFetch.name]
    /\ raw[lastFetch.name] = JsonFile(lastFetch.payload)

Min(a, b) == IF a <= b THEN a ELSE b
Dates(rows) == {rows[i].date : i \in 1..Len(rows)}

\* C7: the joined output never has more rows than the smaller of the
\* normalized weather set and the normalized demand set.
C7_JoinAtMostMin ==
    jout.status = "merged" =>
        Len(jout.merged_df.rows) <=
            Min(Len(jout.noaa_df.rows), Len(jout.eia_df.rows))

ExampleJoinInput ==
    [noaa |-> JsonFile(Payload("list",
                 <<NoaaRow(1, "TMAX", 250), NoaaRow(2, "TMAX", 300)>>)),
     eia |-> JsonFile(Payload("list",
                 <<EiaRow(<<1, 0>>, "D", "Eastern", NumVal(100)),
                   EiaRow(<<3, 0>>, "D", "Eastern", NumVal(200))>>))]

\* the observations of datatype dt on calendar date d
SingleObs(rows, d, dt) ==
    SelectSeq(rows, LAMBDA r : r.date[1] = d /\ r.datatype = dt)

\* C8: the joined output has a record for a date exactly when the date is in
\* the weather set and in the demand set; the record carries that date's
\* weather values in Fahrenheit (9/5 of the Celsius value plus 32) and a
\* demand value of that date; the example of the specification yields the
\* single record 2023-01-01, tmax_f 77.0, energy_mwh 100.
C8_JoinIsInnerOnDate ==
    jout.status = "merged" =>
        LET W == jout.noaa_df.rows
            D == jout.eia_df.rows
            M == jout.merged_df.rows
            raw_rows == jin.noaa.payload.rows
        IN /\ Dates(M) = Dates(W) \cap Dates(D)
           /\ \A i \in 1..Len(M) :
                 /\ \E j \in 1..Len(W) :
                       /\ W[j].date = M[i].date
                       /\ W[j].tmax_f = M[i].tmax_f
                       /\ W[j].tmin_f = M[i].tmin_f
                 /\ \E j \in 1..Len(D) :
                       /\ D[j].date = M[i].date
                       /\ D[j].energy_mwh = M[i].energy_mwh
                 /\ LET o == SingleObs(raw_rows, M[i].date, "TMAX")
                    IN Len(o) = 1 =>
                         /\ M[i].tmax_f # NaN
                         /\ M[i].tmax_f[1] * 50 =
                               (9 * o[1].value + 1600) * M[i].tmax_f[2]
                 /\ LET o == SingleObs(raw_rows, M[i].date, "TMIN")
                    IN Len(o) = 1 =>
                         /\ M[i].tmin_f # NaN
                         /\ M[i].tmin_f[1] * 50 =
                               (9 * o[1].value + 1600) * M[i].tmin_f[2]
           /\ jin = ExampleJoinInput =>
                 /\ Len(M) = 1
                 /\ M[1].date = 1
                 /\ M[1].tmax_f = <<77, 1>>
                 /\ M[1].energy_mwh = <<100, 1>>

C8_Witness ==
    /\ jin = ExampleJoinInput
    /\ jout.status = "merged"
    /\ Len(jout.merged_df.rows) = 1

ProcessLoopOver == pc \in {"report", "finished", "crashed"}

\* every raw file is either unparsable or holds a non-empty list of rows
OnlyListsOrCorrupt ==
    \A f \in DOMAIN raw :
        raw[f].state = "corrupt" \/ (raw[f].payload.kind = "list" /\ raw[f].payload.rows # << >>)

\* both of the city's sources have files and each of them normalizes to a
\* non-empty set
HasValidFiles(i) ==
    LET nfs == NoaaFiles(DOMAIN raw, cities[i])
        efs == EiaFiles(DOMAIN raw, cities[i])
    IN /\ nfs # {} /\ efs # {}
       /\ \A f \in nfs : DfKind(process_noaa_data(RawAs("noaa", raw, f))) = "rows"
       /\ \A f \in efs : DfKind(process_eia_data(RawAs("eia", raw, f))) = "rows"

\* C9: a raw file that cannot be parsed is skipped, and when
\* process_all_data is over every city whose files are valid has had its
\* processed output written (unless to_csv itself met an I/O error).
C9_ParseErrorSkipsFileOnly ==
    (OnlyListsOrCorrupt /\ pc \in {"process", "report", "finished", "crashed"}) =>
        /\ \A i \in 1..Len(cities) :
              (procLog[i].noaa = "None" \/ procLog[i].eia = "None") =>
                  procLog[i].status = "skipped"
        /\ ProcessLoopOver =>
              \A i \in 1..Len(cities) :
                  (HasValidFiles(i) /\ procLog[i].status # "ioerror") =>
                      procLog[i].status = "written"

\* when both files of a city parse, an empty set does skip the city and the
\* loop goes on
EmptySetSkipsCityWhenBothParse ==
    \A i \in 1..Len(cities) :
        (/\ procLog[i].noaa \in {"empty", "rows"}
         /\ procLog[i].eia \in {"empty", "rows"}
         /\ "empty" \in {procLog[i].noaa, procLog[i].eia}) =>
            /\ procLog[i].status = "skipped"
            /\ (pc = "process" => ci > i)

\* C10: a city whose normalized weather set or normalized demand set is
\* empty is skipped: no output is written for it, nothing is raised, and the
\* loop goes on to the remaining cities.
C10_EmptySetSkipsCity ==
    \A i \in 1..Len(cities) :
        (procLog[i].noaa = "empty" \/ procLog[i].eia = "empty") =>
            /\ procLog[i].status = "skipped"
            /\ (pc = "process" => ci > i)

\* C11: every combined record has a numeric energy_mwh: a demand row whose
\* value is not a number (a string that is no number, or null) is excluded
\* before the join, so no record of the combined output has a missing
\* energy_mwh.
C11_EnergyNumeric ==
    jout.status = "merged" =>
        \A i \in 1..Len(jout.merged_df.rows) :
            jout.merged_df.rows[i].energy_mwh # NaN

\* a value is a number above (below) the integer n
Above(v, n) == v # NaN /\ v[1] > n * v[2]
Below(v, n) == v # NaN /\ v[1] < n * v[2]

\* the record is in the frame check_outliers returned under the key
Flagged(key, r) == key \in DOMAIN outliers /\ r \in Range(outliers[key])

\* C12: check_outliers flags a record as a temperature outlier exactly when
\* tmax_f > 130 or tmax_f < -50 or tmin_f > 130 or tmin_f < -50, and as an
\* energy outlier exactly when energy_mwh < 0; the bounds are strict:
\* tmax_f = 135 is flagged, tmax_f = 100, 130 and -50 are not, energy_mwh = -5
\* is flagged and energy_mwh = 0 is not.
C12_OutlierBounds ==
    outliers # NoOutliers =>
        /\ DOMAIN outliers \subseteq {"temperature_outliers", "energy_outliers"}
        /\ \A i \in 1..Len(combined_df) :
              LET r == combined_df[i]
              IN /\ Flagged("temperature_outliers", r) <=>
                       \/ Above(r.tmax_f, 130) \/ Below(r.tmax_f, -50)
                       \/ Above(r.tmin_f, 130) \/ Below(r.tmin_f, -50)
                 /\ Flagged("energy_outliers", r) <=> Below(r.energy_mwh, 0)
                 /\ r.tmax_f = <<135, 1>> => Flagged("temperature_outliers", r)
                 /\ (r.tmax_f \in {<<100, 1>>, <<130, 1>>, <<-50, 1>>}
                       /\ r.tmin_f \in {<<50, 1>>, <<130, 1>>, <<-50, 1>>})
                      => ~Flagged("temperature_outliers", r)
                 /\ r.energy_mwh = <<-5, 1>> => Flagged("energy_outliers", r)
                 /\ r.energy_mwh = <<0, 1>> => ~Flagged("energy_outliers", r)

C12_Witness ==
    /\ combined_df = <<Record(<<135, 1>>, <<50, 1>>, <<-5, 1>>),
                       Record(<<130, 1>>, <<-50, 1>>, <<0, 1>>)>>
    /\ DOMAIN outliers = {"temperature_outliers", "energy_outliers"}
    /\ outliers["temperature_outliers"] = <<combined_df[1]>>
    /\ outliers["energy_outliers"] = <<combined_df[1]>>

\* the key of a city in processed storage, spelled out
ExpectedKey(city_name) ==
    CASE city_name = Houston -> <<"houston", "_processed.csv">>
      [] city_name = NewYork -> <<"new", "_", "york", "_processed.csv">>
      [] city_name = York -> <<"york", "_processed.csv">>
      [] city_name = Leia -> <<"l", "eia", "_processed.csv">>

\* run_pipeline has returned
Completed == pc = "finished"

NotWrittenByRun(i) ==
    FileAt(processed, ExpectedKey(cities[i])) \in
        {AbsentFile, FileAt(LeftoverProcessed, ExpectedKey(cities[i]))}

C14_ReportWrittenByRun ==
    Completed => (report.state = "written" /\ report.run = "this")

NoneProcessed == \A i \in 1..Len(cities) : procLog[i].status = "pending"
AllProcessed == \A i \in 1..Len(cities) : procLog[i].status # "pending"

\* the fetcher process has exited, having made every fetch unless it
\* stopped at a missing credential
FetchStageOver ==
    /\ wpc = "idle"
    /\ pc \in {"process", "report", "finished", "crashed"}
    /\ ~ConfigError => attempted = Keys(Len(cities))

StagesInOrder ==
    /\ \E n \in 0..3 : stages = SubSeq(<<"fetch", "process", "report">>, 1, n)
    /\ ~NoneProcessed => FetchStageOver
    /\ (report.run = "this" \/ outliers # NoOutliers \/ Completed) =>
          (FetchStageOver /\ AllProcessed)

\* a step of the fetch stage comes before all processing, a step of the
\* processing comes after all fetching and before the analysis, a step of
\* the analysis comes after all processing
StepsInOrder ==
    /\ (raw' # raw \/ attempted' # attempted \/ wlog' # wlog) =>
          (NoneProcessed /\ NoneProcessed' /\ UNCHANGED <<processed, report, avars>>)
    /\ (procLog' # procLog \/ processed' # processed) =>
          (FetchStageOver /\ UNCHANGED <<raw, attempted, wvars, report, avars>>)
    /\ (report' # report \/ avars' # avars) =>
          (FetchStageOver /\ AllProcessed
            /\ UNCHANGED <<raw, attempted, wvars, procLog, processed>>)

\* C15: within one run the stages execute strictly in the order fetch,
\* normalize/join, quality analysis: the processing of any city starts only
\* after the fetch stage has finished for all cities and sources, and the
\* quality analysis starts only after the processing has finished for all
\* cities.
C15_StagesInOrder == []StagesInOrder /\ [][StepsInOrder]_vars

C15_Witness ==
    /\ Completed
    /\ stages = <<"fetch", "process", "report">>
    /\ attempted = Keys(2)
    /\ \A i \in 1..Len(cities) : procLog[i].status = "written"
    /\ report.run = "this"

\* a <= b on two numbers
FracLe(a, b) == a[1] * b[2] <= b[1] * a[2]

\* C16: the conversion f(t) = (t/10 * 9/5) + 32 of integer tenths of a
\* degree Celsius is monotonic (t1 <= t2 implies f(t1) <= f(t2)) and
\* satisfies f(0) = 32.0 and f(100) = 50.0.
C16_ConversionMonotonic ==
    fahrenheit # NotConverted =>
        LET t1 == temp_in_tenths_c[1]
            t2 == temp_in_tenths_c[2]
            f1 == fahrenheit[1]
            f2 == fahrenheit[2]
        IN /\ t1 # NaN =>
                 /\ f1 # NaN
                 /\ f1[1] * 50 = (9 * t1[1] + 1600) * f1[2]
                 /\ t1 = <<0, 1>> => f1 = <<32, 1>>
                 /\ t1 = <<100, 1>> => f1 = <<50, 1>>
           /\ (t1 # NaN /\ t2 # NaN /\ FracLe(t1, t2)) =>
                 (f2 # NaN /\ FracLe(f1, f2))

C16_Witness ==
    /\ temp_in_tenths_c = <<<<0, 1>>, <<100, 1>>>>
    /\ fahrenheit = <<<<32, 1>>, <<50, 1>>>>

\* the trailing window of n days and the window of the look-ahead mode
Trailing(n) == [start |-> <<0 - n>>, end |-> <<0>>]
LookAhead == [start |-> <<0>>, end |-> <<14>>]

\* the caller named no mode at all
NoModeSpecified ==
    /\ ~args.two_weeks_ahead
    /\ args.days = << >>
    /\ args.start_date = << >>
    /\ args.end_date = << >>

\* when the caller named no mode the run fetches the 90-day trailing window
DefaultWindowWhenNoMode ==
    (window # NoWindow /\ NoModeSpecified) => window = Trailing(90)

\* C17: run_pipeline selects exactly one fetch window from its arguments:
\* the look-ahead window, the trailing window of the day count given, or the
\* start/end pair given; with no mode given it fetches the 90-day trailing
\* window, and a window the caller gave is never replaced by that default.
C17_WindowIsTheOneSpecified ==
    window # NoWindow =>
        /\ NoModeSpecified => window = Trailing(90)
        /\ args.two_weeks_ahead => window = LookAhead
        /\ (~args.two_weeks_ahead /\ args.days # << >>) =>
              window = Trailing(args.days[1])
        /\ (~args.two_weeks_ahead /\ args.days = << >>
              /\ args.start_date # << >> /\ args.end_date # << >>) =>
              window = [start |-> args.start_date, end |-> args.end_date]

\* the demand transform has run on a payload with a non-empty list of rows
DemandTransformed ==
    /\ jout.eia_df.kind = "df"
    /\ jin.eia.state = "json"
    /\ jin.eia.payload.kind = "list"
    /\ jin.eia.payload.rows # << >>

\* the value column of a raw row as a number, missing when it is none
AsNumber(v) == IF v.text = "num" THEN <<v.n, 1>> ELSE << >>

\* the demand-type rows of the payload in the canonical timezone, and in any
EasternDemand == SelectSeq(jin.eia.payload.rows,
                           LAMBDA r : r.type = "D" /\ r.timezone = "Eastern")
AnyDemand == SelectSeq(jin.eia.payload.rows, LAMBDA r : r.type = "D")

\* the demand-type rows of calendar date d, in payload order
DemandOn(d) == SelectSeq(AnyDemand, LAMBDA r : r.period[1] = d)

\* with canonical rows: the output is those rows, in order
CanonicalRowsOnly ==
    EasternDemand # << >> =>
        /\ Len(jout.eia_df.rows) = Len(EasternDemand)
        /\ \A i \in 1..Len(EasternDemand) :
              /\ jout.eia_df.rows[i].date = EasternDemand[i].period[1]
              /\ jout.eia_df.rows[i].energy_mwh = AsNumber(EasternDemand[i].value)

\* without canonical rows: one output row for each date of a demand-type row
OneRowPerDate ==
    LET out == jout.eia_df.rows
    IN /\ \A i, j \in 1..Len(out) : out[i].date = out[j].date => i = j
       /\ {out[i].date : i \in 1..Len(out)} =
             {AnyDemand[k].period[1] : k \in 1..Len(AnyDemand)}

FirstNonNull(rows) ==
    LET idx == {k \in 1..Len(rows) : rows[k].value.text # "null"}
    IN IF idx = {} THEN NullVal
       ELSE rows[CHOOSE k \in idx : \A m \in idx : k <= m].value

Ranges == {"r0", "r1"}

\* C19: for every city, the raw files process_all_data selects as its
\* weather input and its demand input are files the fetcher saved for that
\* city and that source, never a file of another city or of the other
\* source, also when a city name is part of another city name or contains
\* 'noaa' or 'eia'.
C19_SelectedFilesAreTheCitysOwn ==
    \A i \in 1..Len(cities) :
        procLog[i].nf # << >> =>
            /\ procLog[i].nf \in {RawFileName("noaa", cities[i], r) : r \in Ranges}
            /\ procLog[i].ef \in {RawFileName("eia", cities[i], r) : r \in Ranges}

\* the raw files in storage that were saved for the source and the city
OwnFiles(source, i) ==
    {RawFileName(source, cities[i], r) : r \in Ranges} \cap DOMAIN raw

\* the date range in the name of a raw file
RangeOf(f) == f[Len(f) - 1]

\* the run has saved both files of the city, and storage holds a file of
\* another date range for one of its sources as well
SeveralRanges(i) ==
    /\ RawFileName("noaa", cities[i], range) \in writes
    /\ RawFileName("eia", cities[i], range) \in writes
    /\ \/ Cardinality(OwnFiles("noaa", i)) > 1
       \/ Cardinality(OwnFiles("eia", i)) > 1

\* C20: when raw storage holds several files of a source for a city, left
\* by earlier runs with other date ranges, the run derives the city's
\* processed output from the files its own fetch wrote, and the weather file
\* and the demand file it joins cover the same date range.
C20_JoinsFilesOfThisRun ==
    \A i \in 1..Len(cities) :
        (SeveralRanges(i) /\ procLog[i].status = "written") =>
            /\ procLog[i].nf \in writes
            /\ procLog[i].ef \in writes
            /\ RangeOf(procLog[i].nf) = RangeOf(procLog[i].ef)
====
